---- MODULE Spec2Model ----
(***************************************************************************)
(* Verification model of the data-visualisation API (Projet/api.py and     *)
(* Projet/packages/modules).  Five state machines share the module:        *)
(*   Spec          the 2D/3D reduce-and-visualise request                  *)
(*                 (reduire_visualiser_2d/3d, creer_graphique_interactif,  *)
(*                 sauvegarder_rendu_html);                                *)
(*   SpecNettoyage the cleaning request (nettoyer_donnees);                *)
(*   SpecLoad      DataLoader.load;                                        *)
(*   SpecStockage  concurrent runs of sauvegarder_rendu_html;              *)
(*   SpecBdd       SauvegardeBDD.sauvegarder_en_sqlite.                    *)
(* Netoyage, Numeric_data, MethodeACP and AutoSelector are imported by     *)
(* api.py but their files are not part of the sources; they are modelled   *)
(* from the specification (sections 4.2 to 4.5).                           *)
(***************************************************************************)
EXTENDS Integers, Sequences, FiniteSets, TLC

VARIABLES
    pc,                 \* position of the visualisation request handler
    requete,            \* the request: upload, method, n_composantes, parameters
    donnees_brutes,     \* frame read from the upload
    donnees_propres,    \* frame after the drop-missing pass
    donnees_numeriques, \* numeric subset of donnees_propres
    donnees_couleur,    \* label series ([present, serie])
    nom_methode,        \* method name in effect
    donnees_reduites,   \* coordinate matrix ([present, mat])
    noms_colonnes,      \* coordinate column names
    donnees_graphique,  \* frame handed to the renderer
    contenu_html,       \* rendered artifact content
    journal,            \* components invoked so far, in order
    stockage,           \* storage directory: file name -> [etat, contenu]
    reponse,            \* HTTP response of the request
    net,                \* cleaning request (nettoyer_donnees)
    chg,                \* DataLoader.load call
    sto,                \* concurrent runs of sauvegarder_rendu_html and their directory
    bdd                 \* SauvegardeBDD.sauvegarder_en_sqlite call and its database

vars == <<pc, requete, donnees_brutes, donnees_propres, donnees_numeriques,
          donnees_couleur, nom_methode, donnees_reduites, noms_colonnes,
          donnees_graphique, contenu_html, journal, stockage, reponse, net, chg, sto, bdd>>

varsViz == <<pc, requete, donnees_brutes, donnees_propres, donnees_numeriques,
             donnees_couleur, nom_methode, donnees_reduites, noms_colonnes,
             donnees_graphique, contenu_html, journal, stockage, reponse>>

----------------------------------------------------------------------------
(* Bounds of the model *)

MaxLignes == 3

MaxPerplexite == 3

MaxDossiers == 3

MaxRendus == 2

MaxCaracteres == 2

MaxLignesTable == 2

----------------------------------------------------------------------------
(* Frames: ordered columns [nom, type], ordered rows [cle, cellules].  A   *)
(* cell is NA (the empty tuple) or holds a value: a number is the fraction *)
(* <<n, d>> in lowest terms, a text is <<s>>.                              *)

NA == <<>>

Range(s) == {s[i] : i \in 1..Len(s)}

FrameVide == [cols |-> <<>>, lignes |-> <<>>]

\* df.columns
Colonnes(df) == {df.cols[j].nom : j \in 1..Len(df.cols)}

\* df.index
Index(df) == [i \in 1..Len(df.lignes) |-> df.lignes[i].cle]

\* position of the (first) column carrying the name
PosColonne(df, nom) == CHOOSE j \in 1..Len(df.cols) :
                          /\ df.cols[j].nom = nom
                          /\ \A h \in 1..(j-1) : df.cols[h].nom # nom

\* the row of df whose key is cle
LigneDeCle(df, cle) == df.lignes[CHOOSE i \in 1..Len(df.lignes) : df.lignes[i].cle = cle]

\* Faulty variant: only the column axis is tested
EmptyColonnes(df) == Len(df.cols) = 0

\* df.empty : any axis of length 0
Empty(df) == Len(df.cols) = 0 \/ Len(df.lignes) = 0

\* column descriptions of the uploads the model draws from
Schemas ==
    { << [nom |-> "x", type |-> "num"], [nom |-> "c", type |-> "str"] >>,
      << [nom |-> "x", type |-> "num"], [nom |-> "PC_1", type |-> "num"] >>,
      << [nom |-> "x", type |-> "str"], [nom |-> "c", type |-> "str"] >> }

\* a parsed upload: row keys 0..n-1 (RangeIndex), each cell present or
\* missing; a present cell holds a value that identifies its row and column
FrameDe(schema, n, present) ==
    [cols   |-> schema,
     lignes |-> [i \in 1..n |->
                   [cle |-> i - 1,
                    cellules |-> [j \in 1..Len(schema) |->
                                    IF present[i][j] THEN <<10 * i + j, 1>> ELSE NA]]]]

FramesBrutes ==
    UNION { UNION { { FrameDe(s, n, p) : p \in [1..n -> [1..Len(s) -> BOOLEAN]] }
                    : n \in 0..MaxLignes }
            : s \in Schemas }

----------------------------------------------------------------------------
(* Collaborators whose files are not in the sources (modelled from the     *)
(* specification): Netoyage, Numeric_data, MethodeACP, AutoSelector.       *)

SansNA(ligne) == \A j \in 1..Len(ligne.cellules) : ligne.cellules[j] # NA

\* Netoyage(df).gerer_les_valeurs_manquantes(strategy='drop'): rows holding
\* a missing value are removed; row keys and column types are kept
SupprimerNA(df) == [df EXCEPT !.lignes = SelectSeq(df.lignes, SansNA)]

\* positions of the numeric columns, in column order
RECURSIVE PosNumeriques(_, _)
PosNumeriques(cols, j) ==
    IF j > Len(cols) THEN <<>>
    ELSE IF cols[j].type = "num" THEN <<j>> \o PosNumeriques(cols, j + 1)
         ELSE PosNumeriques(cols, j + 1)

\* Numeric_data(df).num_col(): the numeric columns only, same rows and keys
num_col(df) ==
    LET pos == PosNumeriques(df.cols, 1) IN
    [cols   |-> [h \in 1..Len(pos) |-> df.cols[pos[h]]],
     lignes |-> [i \in 1..Len(df.lignes) |->
                   [cle |-> df.lignes[i].cle,
                    cellules |-> [h \in 1..Len(pos) |-> df.lignes[i].cellules[pos[h]]]]]]

Strategies == {"acp", "tsne", "umap"}

\* AutoSelector(df, nombre_de_dimension).selection_methode(): the heuristic
\* is not fixed by the specification, any name may come back
AutoSelectorResultats == Strategies \cup {"autre"}

\* MethodeACP(df).acp_reduction(k): fails when k exceeds the number of
\* numeric columns, otherwise succeeds or fails numerically
IssuesACP(df, k) == IF k > Len(df.cols) THEN {"raise"} ELSE {"ok", "raise"}

----------------------------------------------------------------------------
(* Reduction strategies of the sources *)

\* MethodeTSNE.tsne_reduction: the perplexity goes unchecked to TSNE, whose
\* fit raises when perplexity >= n_samples
IssuesTSNE(df, perplexity) ==
    IF perplexity >= Len(df.lignes) THEN {"raise"} ELSE {"ok", "raise"}

\* MethodeUMAP.umap_reduction
IssuesUMAP(df) == {"ok", "raise"}

\* the numpy array a strategy returns: one row per input row, in row order,
\* k coordinates; it carries no row key
Coordonnees(df, k) == [i \in 1..Len(df.lignes) |-> [d \in 1..k |-> <<100 * i + d, 1>>]]

----------------------------------------------------------------------------
(* creer_graphique_interactif: frame operations *)

\* parametres.colonne_couleur is None (<<>>) or a name (<<nom>>); the test
\* "if parametres.colonne_couleur" is false for None and for ""
CouleurDemandee(p) == p.colonne_couleur # <<>> /\ p.colonne_couleur # <<"">>

NomCouleur(p) == p.colonne_couleur[1]

\* donnees_propres.loc[index, nom]: the values of column nom at the keys of
\* index, in the order of index, keyed by them
Loc(df, index, nom) ==
    [i \in 1..Len(index) |->
        [cle |-> index[i],
         v   |-> LigneDeCle(df, index[i]).cellules[PosColonne(df, nom)]]]

\* value a series holds at a key (NA when the key is absent: alignment)
ValeurSerie(serie, cle) ==
    IF \E i \in 1..Len(serie) : serie[i].cle = cle
    THEN serie[CHOOSE i \in 1..Len(serie) : serie[i].cle = cle].v
    ELSE NA

\* noms_colonnes = [f"PC_{i+1}" for i in range(n_composantes)]
Prefixe(m) == CASE m = "acp" -> "PC_" [] m = "tsne" -> "TSNE_" [] m = "umap" -> "UMAP_"

NomsColonnes(m, k) == [i \in 1..k |-> Prefixe(m) \o ToString(i)]

\* Faulty variant: the index argument is left out: rows are keyed 0..n-1
DataFrameSansIndex(mat, noms, index) ==
    [cols   |-> [j \in 1..Len(noms) |-> [nom |-> noms[j], type |-> "num"]],
     lignes |-> [i \in 1..Len(mat) |-> [cle |-> i - 1, cellules |-> mat[i]]]]

\* pd.DataFrame(donnees_reduites, columns=noms_colonnes, index=index):
\* row i of the matrix receives the i-th key of index
DataFrameDe(mat, noms, index) ==
    [cols   |-> [j \in 1..Len(noms) |-> [nom |-> noms[j], type |-> "num"]],
     lignes |-> [i \in 1..Len(mat) |-> [cle |-> index[i], cellules |-> mat[i]]]]

\* df[nom] = serie: an existing column of that name is replaced in place,
\* otherwise the column is appended last; values are aligned on row keys
AffecterColonne(df, nom, type, serie) ==
    IF nom \in Colonnes(df)
    THEN LET j == PosColonne(df, nom) IN
         [cols   |-> [df.cols EXCEPT ![j] = [nom |-> nom, type |-> type]],
          lignes |-> [i \in 1..Len(df.lignes) |->
                        [df.lignes[i] EXCEPT !.cellules[j] =
                            ValeurSerie(serie, df.lignes[i].cle)]]]
    ELSE [cols   |-> Append(df.cols, [nom |-> nom, type |-> type]),
          lignes |-> [i \in 1..Len(df.lignes) |->
                        [df.lignes[i] EXCEPT !.cellules =
                            Append(@, ValeurSerie(serie, df.lignes[i].cle))]]]

\* donnees_graphique.index.astype(str), keyed by the index itself
HoverName(df) == [i \in 1..Len(df.lignes) |->
                    [cle |-> df.lignes[i].cle, v |-> <<ToString(df.lignes[i].cle)>>]]

TypeColonne(df, nom) == df.cols[PosColonne(df, nom)].type

\* lines 243-249
PreparerGraphique(mat, noms, numeriques, p, couleur) ==
    LET g0 == DataFrameDe(mat, noms, Index(numeriques))
        g1 == AffecterColonne(g0, "hover_name", "str", HoverName(g0))
    IN IF couleur.present
       THEN AffecterColonne(g1, NomCouleur(p), couleur.type, couleur.serie)
       ELSE g1


----------------------------------------------------------------------------
(* The visualisation request: reduire_visualiser_2d / reduire_visualiser_3d *)

Jetons == {"u1", "u2"}

\* uploads: a file name extension, whether the content can be read and
\* parsed, and the frame it parses to
Televersements ==
    {[ext |-> e, lisible |-> FALSE, df |-> FrameVide] : e \in {"txt", "csv", "xlsx"}}
    \cup {[ext |-> "csv", lisible |-> TRUE, df |-> f] : f \in FramesBrutes}
    \cup {[ext |-> "xlsx", lisible |-> TRUE, df |-> f] :
            f \in {g \in FramesBrutes : Len(g.lignes) = 0}}

CouleursDemandees == {<<>>, <<"">>, <<"c">>, <<"PC_1">>, <<"absente">>}

\* perplexite is read by the t-SNE branch only: the other methods are
\* requested with the values 0 (rejected by validation) and 1
Perplexites(m) == IF m \in {"tsne", "auto"} THEN 0..MaxPerplexite ELSE {0, 1}

Methodes == {"acp", "tsne", "umap", "auto"}

PasDeReponse == [statut |-> 0, detail |-> "", url_rendu |-> ""]

PasDeCouleur == [present |-> FALSE, type |-> "", serie |-> <<>>]

PasDeReduction == [present |-> FALSE, mat |-> <<>>]

PasDeRequete ==
    [fichier |-> [ext |-> "", lisible |-> FALSE, df |-> FrameVide], methode |-> "",
     n_composantes |-> 0, parametres |-> [colonne_couleur |-> <<>>, perplexite |-> 0]]

InitViz ==
    /\ pc = "attente"
    /\ requete = PasDeRequete
    /\ donnees_brutes = FrameVide
    /\ donnees_propres = FrameVide
    /\ donnees_numeriques = FrameVide
    /\ donnees_couleur = PasDeCouleur
    /\ nom_methode = ""
    /\ donnees_reduites = PasDeReduction
    /\ noms_colonnes = <<>>
    /\ donnees_graphique = FrameVide
    /\ contenu_html = <<>>
    /\ journal = <<>>
    /\ stockage = <<>>
    /\ reponse = PasDeReponse

\* raise HTTPException(status_code, detail): the handler ends here
Echec(statut, detail) ==
    /\ pc' = "fin"
    /\ reponse' = [statut |-> statut, detail |-> detail, url_rendu |-> ""]

\* a request arrives at one of the two endpoints (n_composantes 2 or 3)
Recevoir ==
    /\ pc = "attente"
    /\ \E f \in Televersements, m \in Methodes, k \in {2, 3}, c \in CouleursDemandees :
         \E px \in Perplexites(m) :
            requete' = [fichier |-> f, methode |-> m, n_composantes |-> k,
                        parametres |-> [colonne_couleur |-> c, perplexite |-> px]]
    /\ pc' = "lire"
    /\ UNCHANGED <<donnees_brutes, donnees_propres, donnees_numeriques, donnees_couleur,
                   nom_methode, donnees_reduites, noms_colonnes, donnees_graphique,
                   contenu_html, journal, stockage, reponse, net, chg, sto, bdd>>

\* obtenir_df_depuis_televersement
LireTeleversement ==
    /\ pc = "lire"
    /\ IF requete.fichier.ext \notin {"csv", "xlsx"}
       THEN Echec(400, "Format de fichier non supporte") /\ UNCHANGED donnees_brutes
       ELSE IF ~requete.fichier.lisible
            THEN Echec(400, "Erreur de lecture du fichier") /\ UNCHANGED donnees_brutes
            ELSE /\ donnees_brutes' = requete.fichier.df
                 /\ pc' = "valider"
                 /\ UNCHANGED reponse
    /\ UNCHANGED <<requete, donnees_propres, donnees_numeriques, donnees_couleur,
                   nom_methode, donnees_reduites, noms_colonnes, donnees_graphique,
                   contenu_html, journal, stockage, net, chg, sto, bdd>>

\* ParametresVisualisation: perplexite: int = Field(30, ge=1)
ParametresValides(p) == p.perplexite >= 1

\* ParametresVisualisation.model_validate_json(parametres_json)
ValiderParametres ==
    /\ pc = "valider"
    /\ IF ParametresValides(requete.parametres)
       THEN pc' = "preparer" /\ UNCHANGED reponse
       ELSE Echec(422, "Erreur de validation des parametres")
    /\ UNCHANGED <<requete, donnees_brutes, donnees_propres, donnees_numeriques,
                   donnees_couleur, nom_methode, donnees_reduites, noms_colonnes,
                   donnees_graphique, contenu_html, journal, stockage, net, chg, sto, bdd>>

\* creer_graphique_interactif, step 1: drop-missing pass, numeric subset,
\* and the guard on an empty subset
PreparerDonnees ==
    /\ pc = "preparer"
    /\ LET propres    == SupprimerNA(donnees_brutes)
           numeriques == num_col(propres)
       IN /\ donnees_propres' = propres
          /\ donnees_numeriques' = numeriques
          /\ journal' = journal \o <<"Netoyage", "Numeric_data">>
          /\ IF Empty(numeriques)
             THEN Echec(400, "Erreur de preparation des donnees")
             ELSE pc' = "couleur" /\ UNCHANGED reponse
    /\ UNCHANGED <<requete, donnees_brutes, donnees_couleur, nom_methode,
                   donnees_reduites, noms_colonnes, donnees_graphique, contenu_html,
                   stockage, net, chg, sto, bdd>>

\* Faulty variant: the colour name is looked up in the numeric subset
ColonnesPourCouleurNumeriques == Colonnes(donnees_numeriques)

\* line 199: the columns the colour name is looked up in
ColonnesPourCouleur == Colonnes(donnees_brutes)

\* Faulty variant: the colour values are taken from the raw frame by position
SerieCouleurBrute ==
    LET index == Index(donnees_numeriques)
        j     == PosColonne(donnees_brutes, NomCouleur(requete.parametres))
    IN [i \in 1..Len(index) |->
           [cle |-> index[i], v |-> donnees_brutes.lignes[i].cellules[j]]]

\* line 202: donnees_propres.loc[donnees_numeriques.index, colonne_couleur]
SerieCouleur ==
    Loc(donnees_propres, Index(donnees_numeriques), NomCouleur(requete.parametres))

\* step 2: the colour (label) column
GererCouleur ==
    /\ pc = "couleur"
    /\ LET p == requete.parametres IN
       IF CouleurDemandee(p)
       THEN IF NomCouleur(p) \notin ColonnesPourCouleur
            THEN Echec(404, "Colonne de couleur introuvable") /\ UNCHANGED donnees_couleur
            ELSE /\ donnees_couleur' =
                       [present |-> TRUE,
                        type    |-> TypeColonne(donnees_propres, NomCouleur(p)),
                        serie   |-> SerieCouleur]
                 /\ pc' = "selection"
                 /\ UNCHANGED reponse
       ELSE pc' = "selection" /\ UNCHANGED <<donnees_couleur, reponse>>
    /\ UNCHANGED <<requete, donnees_brutes, donnees_propres, donnees_numeriques,
                   nom_methode, donnees_reduites, noms_colonnes, donnees_graphique,
                   contenu_html, journal, stockage, net, chg, sto, bdd>>

\* Faulty variant: the selector is consulted whatever the method
SelectionnerMethodeSystematique ==
    /\ pc = "selection"
    /\ \E choix \in AutoSelectorResultats :
          /\ nom_methode' = (IF requete.methode = "auto" THEN choix ELSE requete.methode)
          /\ journal' = Append(journal, "AutoSelector")
    /\ pc' = "reduction"
    /\ UNCHANGED <<requete, donnees_brutes, donnees_propres, donnees_numeriques,
                   donnees_couleur, donnees_reduites, noms_colonnes, donnees_graphique,
                   contenu_html, stockage, reponse, net, chg, sto, bdd>>

\* step 3: method selection
SelectionnerMethode ==
    /\ pc = "selection"
    /\ IF requete.methode = "auto"
       THEN \E choix \in AutoSelectorResultats :
               /\ nom_methode' = choix
               /\ journal' = Append(journal, "AutoSelector")
       ELSE nom_methode' = requete.methode /\ UNCHANGED journal
    /\ pc' = "reduction"
    /\ UNCHANGED <<requete, donnees_brutes, donnees_propres, donnees_numeriques,
                   donnees_couleur, donnees_reduites, noms_colonnes, donnees_graphique,
                   contenu_html, stockage, reponse, net, chg, sto, bdd>>

\* outcomes of the strategy the name selects
Issues(m, df, k, p) ==
    CASE m = "acp"  -> IssuesACP(df, k)
      [] m = "tsne" -> IssuesTSNE(df, p.perplexite)
      [] m = "umap" -> IssuesUMAP(df)

NomStrategie(m) ==
    CASE m = "acp" -> "MethodeACP" [] m = "tsne" -> "MethodeTSNE" [] m = "umap" -> "MethodeUMAP"

\* nom_methode.upper()
Majuscule(m) ==
    CASE m = "acp" -> "ACP" [] m = "tsne" -> "TSNE" [] m = "umap" -> "UMAP"
      [] m = "auto" -> "AUTO" [] OTHER -> "AUTRE"

\* str(e) of the exception a failing strategy raises
CauseReduction(m, df, k, p) ==
    CASE m = "acp" /\ k > Len(df.cols) -> "n_components trop grand"
      [] m = "tsne" /\ p.perplexite >= Len(df.lignes) -> "perplexity must be less than n_samples"
      [] OTHER -> "erreur numerique"

\* Faulty variant: the message names the method of the request
DetailReductionDemandee(m, cause) ==
    "Erreur lors de l'execution de " \o Majuscule(requete.methode) \o ": " \o cause

\* line 237: f"Erreur lors de l'exécution de {nom_methode.upper()}: {e}"
DetailReduction(m, cause) ==
    "Erreur lors de l'execution de " \o Majuscule(m) \o ": " \o cause

\* step 4: run the reduction inside try/except Exception
ExecuterReduction ==
    /\ pc = "reduction"
    /\ IF nom_methode \in Strategies
       THEN /\ journal' = Append(journal, NomStrategie(nom_methode))
            /\ \E issue \in Issues(nom_methode, donnees_numeriques,
                                   requete.n_composantes, requete.parametres) :
                 IF issue = "ok"
                 THEN /\ donnees_reduites' =
                            [present |-> TRUE,
                             mat |-> Coordonnees(donnees_numeriques, requete.n_composantes)]
                      /\ noms_colonnes' = NomsColonnes(nom_methode, requete.n_composantes)
                      /\ pc' = "dataframe"
                      /\ UNCHANGED reponse
                 ELSE /\ Echec(500, DetailReduction(nom_methode,
                                       CauseReduction(nom_methode, donnees_numeriques,
                                                      requete.n_composantes,
                                                      requete.parametres)))
                      /\ UNCHANGED <<donnees_reduites, noms_colonnes>>
       ELSE /\ pc' = "dataframe"
            /\ UNCHANGED <<journal, donnees_reduites, noms_colonnes, reponse>>
    /\ UNCHANGED <<requete, donnees_brutes, donnees_propres, donnees_numeriques,
                   donnees_couleur, nom_methode, donnees_graphique, contenu_html,
                   stockage, net, chg, sto, bdd>>

\* Faulty variant: the frame is built without the test on donnees_reduites
PreparerDataFrameSansGarde ==
    /\ pc = "dataframe"
    /\ donnees_graphique' =
           PreparerGraphique(donnees_reduites.mat, noms_colonnes, donnees_numeriques,
                             requete.parametres, donnees_couleur)
    /\ pc' = "graphique"
    /\ UNCHANGED <<requete, donnees_brutes, donnees_propres, donnees_numeriques,
                   donnees_couleur, nom_methode, donnees_reduites, noms_colonnes,
                   contenu_html, journal, stockage, reponse, net, chg, sto, bdd>>

\* step 5: the frame for the renderer
PreparerDataFrame ==
    /\ pc = "dataframe"
    /\ IF ~donnees_reduites.present
       THEN Echec(500, "Echec de la reduction de dimension") /\ UNCHANGED donnees_graphique
       ELSE /\ donnees_graphique' =
                  PreparerGraphique(donnees_reduites.mat, noms_colonnes, donnees_numeriques,
                                    requete.parametres, donnees_couleur)
            /\ pc' = "graphique"
            /\ UNCHANGED reponse
    /\ UNCHANGED <<requete, donnees_brutes, donnees_propres, donnees_numeriques,
                   donnees_couleur, nom_methode, donnees_reduites, noms_colonnes,
                   contenu_html, journal, stockage, net, chg, sto, bdd>>

\* Faulty variant: the artifact file is opened before the figure is rendered
GenererGraphiqueDansFichier ==
    /\ pc = "graphique"
    /\ journal' = journal \o <<"open", "plotly">>
    /\ \E j \in Jetons :
         stockage' = Append(stockage, [nom |-> j, etat |-> "ouvert", contenu |-> <<>>])
    /\ \E issue \in {"ok", "raise"} :
         IF issue = "ok"
         THEN /\ contenu_html' = <<donnees_graphique, nom_methode, requete.n_composantes>>
              /\ pc' = "ecrire"
              /\ UNCHANGED reponse
         ELSE Echec(500, "Internal Server Error") /\ UNCHANGED contenu_html
    /\ UNCHANGED <<requete, donnees_brutes, donnees_propres, donnees_numeriques,
                   donnees_couleur, nom_methode, donnees_reduites, noms_colonnes,
                   donnees_graphique, net, chg, sto, bdd>>

\* step 6: px.scatter / px.scatter_3d and fig.to_html; an exception of the
\* renderer is not caught by the handler (internal server error)
GenererGraphique ==
    /\ pc = "graphique"
    /\ journal' = Append(journal, "plotly")
    /\ \E issue \in {"ok", "raise"} :
         IF issue = "ok"
         THEN /\ contenu_html' = <<donnees_graphique, nom_methode, requete.n_composantes>>
              /\ pc' = "ouvrir"
              /\ UNCHANGED reponse
         ELSE Echec(500, "Internal Server Error") /\ UNCHANGED contenu_html
    /\ UNCHANGED <<requete, donnees_brutes, donnees_propres, donnees_numeriques,
                   donnees_couleur, nom_methode, donnees_reduites, noms_colonnes,
                   donnees_graphique, stockage, net, chg, sto, bdd>>

Fichiers == {stockage[i].nom : i \in 1..Len(stockage)}

\* sauvegarder_rendu_html: nom_fichier = f"rendu_{uuid.uuid4()}.html";
\* open(chemin_fichier, "w") creates the file empty
OuvrirFichier ==
    /\ pc = "ouvrir"
    /\ \E j \in Jetons :
         /\ stockage' = Append(SelectSeq(stockage, LAMBDA f : f.nom # j),
                               [nom |-> j, etat |-> "ouvert", contenu |-> <<>>])
         /\ journal' = Append(journal, "open")
    /\ pc' = "ecrire"
    /\ UNCHANGED <<requete, donnees_brutes, donnees_propres, donnees_numeriques,
                   donnees_couleur, nom_methode, donnees_reduites, noms_colonnes,
                   donnees_graphique, contenu_html, reponse, net, chg, sto, bdd>>

\* f.write(contenu_html) and the end of the with block, which closes the
\* file; an I/O error of the write leaves the file as it was opened and is
\* not caught by the handler
EcrireFichier ==
    /\ pc = "ecrire"
    /\ journal' = Append(journal, "write")
    /\ \E issue \in {"ok", "raise"} :
         IF issue = "ok"
         THEN /\ stockage' = [stockage EXCEPT ![Len(stockage)] =
                                 [@ EXCEPT !.etat = "ferme", !.contenu = contenu_html]]
              /\ pc' = "repondre"
              /\ UNCHANGED reponse
         ELSE /\ stockage' = [stockage EXCEPT ![Len(stockage)] =
                                 [@ EXCEPT !.etat = "ferme"]]
              /\ Echec(500, "Internal Server Error")
    /\ UNCHANGED <<requete, donnees_brutes, donnees_propres, donnees_numeriques,
                   donnees_couleur, nom_methode, donnees_reduites, noms_colonnes,
                   donnees_graphique, contenu_html, net, chg, sto, bdd>>

\* return of the locator and ReponseVisualisation
Repondre ==
    /\ pc = "repondre"
    /\ reponse' = [statut |-> 200, detail |-> "success",
                   url_rendu |-> stockage[Len(stockage)].nom]
    /\ pc' = "fin"
    /\ UNCHANGED <<requete, donnees_brutes, donnees_propres, donnees_numeriques,
                   donnees_couleur, nom_methode, donnees_reduites, noms_colonnes,
                   donnees_graphique, contenu_html, journal, stockage, net, chg, sto, bdd>>

----------------------------------------------------------------------------
(* Netoyage (file not in the sources): duplicates and missing values,      *)
(* modelled from section 4.2 of the specification.                         *)

RECURSIVE Pgcd(_, _)
Pgcd(a, b) == IF b = 0 THEN a ELSE Pgcd(b, a % b)

\* fraction in lowest terms (numerators are >= 0 in the model)
Norm(q) == IF q[1] = 0 THEN <<0, 1>>
           ELSE LET g == Pgcd(q[1], q[2]) IN <<q[1] \div g, q[2] \div g>>

Plus(p, q) == Norm(<<p[1] * q[2] + q[1] * p[2], p[2] * q[2]>>)

Inferieur(p, q) == p[1] * q[2] < q[1] * p[2]

RECURSIVE Somme(_)
Somme(s) == IF s = <<>> THEN <<0, 1>> ELSE Plus(Head(s), Somme(Tail(s)))

Moyenne(s) == LET t == Somme(s) IN Norm(<<t[1], t[2] * Len(s)>>)

RECURSIVE Inserer(_, _)
Inserer(q, s) == IF s = <<>> THEN <<q>>
                 ELSE IF Inferieur(Head(s), q) THEN <<Head(s)>> \o Inserer(q, Tail(s))
                      ELSE <<q>> \o s

RECURSIVE Trier(_)
Trier(s) == IF s = <<>> THEN <<>> ELSE Inserer(Head(s), Trier(Tail(s)))

Mediane(s) ==
    LET t == Trier(s)
        n == Len(t)
    IN IF n % 2 = 1 THEN t[(n + 1) \div 2]
       ELSE LET u == Plus(t[n \div 2], t[n \div 2 + 1]) IN Norm(<<u[1], 2 * u[2]>>)

\* the values present in column j, in row order
RECURSIVE ValeursColonne(_, _)
ValeursColonne(lignes, j) ==
    IF lignes = <<>> THEN <<>>
    ELSE IF Head(lignes).cellules[j] = NA THEN ValeursColonne(Tail(lignes), j)
         ELSE <<Head(lignes).cellules[j]>> \o ValeursColonne(Tail(lignes), j)

\* value that replaces a missing cell of column j (NA: left missing)
Remplacement(df, j, strategy) ==
    IF strategy = "fill" THEN <<0, 1>>
    ELSE IF df.cols[j].type # "num" \/ ValeursColonne(df.lignes, j) = <<>> THEN NA
         ELSE IF strategy = "mean" THEN Moyenne(ValeursColonne(df.lignes, j))
              ELSE Mediane(ValeursColonne(df.lignes, j))

Imputer(df, strategy) ==
    [df EXCEPT !.lignes =
        [i \in 1..Len(df.lignes) |->
            [df.lignes[i] EXCEPT !.cellules =
                [j \in 1..Len(df.cols) |->
                    IF df.lignes[i].cellules[j] = NA
                    THEN Remplacement(df, j, strategy)
                    ELSE df.lignes[i].cellules[j]]]]]

\* Netoyage(df).gerer_les_valeurs_manquantes(strategy=...)
gerer_les_valeurs_manquantes(df, strategy) ==
    IF strategy = "drop" THEN SupprimerNA(df) ELSE Imputer(df, strategy)

\* Netoyage(df).gerer_les_valeurs_duplicates(): a row equal to an earlier
\* row is removed, the first occurrence and its key are kept
RECURSIVE SansDoublons(_, _)
SansDoublons(lignes, vues) ==
    IF lignes = <<>> THEN <<>>
    ELSE IF Head(lignes).cellules \in vues THEN SansDoublons(Tail(lignes), vues)
         ELSE <<Head(lignes)>>
              \o SansDoublons(Tail(lignes), vues \cup {Head(lignes).cellules})

gerer_les_valeurs_duplicates(df) == [df EXCEPT !.lignes = SansDoublons(df.lignes, {})]

----------------------------------------------------------------------------
(* The cleaning request: nettoyer_donnees *)

SchemaNettoyage == << [nom |-> "x", type |-> "num"], [nom |-> "c", type |-> "str"] >>

ValeursNettoyage == << {NA, <<1, 1>>, <<4, 1>>}, {NA, <<"a">>} >>

\* uploads of the cleaning request: rows keyed 0..n-1, values from a small
\* set so that equal rows occur
FramesNettoyage ==
    UNION { { [cols   |-> SchemaNettoyage,
               lignes |-> [i \in 1..n |-> [cle |-> i - 1, cellules |-> c[i]]]]
              : c \in [1..n -> ValeursNettoyage[1] \X ValeursNettoyage[2]] }
            : n \in 0..MaxLignes }

TeleversementsNettoyage ==
    {[ext |-> e, lisible |-> FALSE, df |-> FrameVide] : e \in {"txt", "csv"}}
    \cup {[ext |-> "csv", lisible |-> TRUE, df |-> f] : f \in FramesNettoyage}

\* ParametresNettoyage; strategie_imputation "None" is Python's None and
\* "autre" a value the Literal rejects
ParametresNettoyagePossibles ==
    [supprimer_na : BOOLEAN, supprimer_doublons : BOOLEAN,
     strategie_imputation : {"None", "mean", "median", "fill", "autre"}]

ParametresNettoyageValides(p) == p.strategie_imputation \in {"None", "mean", "median", "fill"}

\* Faulty variant: the imputation branch is tested before the drop branch
ChoixManquantesImputationDAbord(p) ==
    IF p.strategie_imputation # "None" THEN p.strategie_imputation
    ELSE IF p.supprimer_na THEN "drop"
         ELSE "rien"

\* lines 444-447: if supprimer_na: 'drop' / elif strategie_imputation: it
ChoixManquantes(p) ==
    IF p.supprimer_na THEN "drop"
    ELSE IF p.strategie_imputation # "None" THEN p.strategie_imputation
         ELSE "rien"

NetAttente ==
    [pc |-> "attente",
     fichier |-> [ext |-> "", lisible |-> FALSE, df |-> FrameVide],
     parametres |-> [supprimer_na |-> FALSE, supprimer_doublons |-> FALSE,
                     strategie_imputation |-> "None"],
     brutes |-> FrameVide, donnees |-> FrameVide, journal |-> <<>>,
     reponse |-> [statut |-> 0, detail |-> "", donnees_nettoyees |-> FrameVide]]

NetEchec(statut, detail) ==
    [net EXCEPT !.pc = "fin",
                !.reponse = [statut |-> statut, detail |-> detail,
                             donnees_nettoyees |-> FrameVide]]

NetRecevoir ==
    /\ net.pc = "attente"
    /\ \E f \in TeleversementsNettoyage, p \in ParametresNettoyagePossibles :
          net' = [net EXCEPT !.pc = "lire", !.fichier = f, !.parametres = p]
    /\ UNCHANGED <<varsViz, chg, sto, bdd>>

\* obtenir_df_depuis_televersement
NetLire ==
    /\ net.pc = "lire"
    /\ net' = IF net.fichier.ext \notin {"csv", "xlsx"}
              THEN NetEchec(400, "Format de fichier non supporte")
              ELSE IF ~net.fichier.lisible
                   THEN NetEchec(400, "Erreur de lecture du fichier")
                   ELSE [net EXCEPT !.pc = "valider", !.brutes = net.fichier.df,
                                    !.donnees = net.fichier.df]
    /\ UNCHANGED <<varsViz, chg, sto, bdd>>

\* ParametresNettoyage.model_validate_json(parametres_json)
NetValider ==
    /\ net.pc = "valider"
    /\ net' = IF ParametresNettoyageValides(net.parametres)
              THEN [net EXCEPT !.pc = "doublons"]
              ELSE NetEchec(422, "Erreur de validation des parametres")
    /\ UNCHANGED <<varsViz, chg, sto, bdd>>

\* lines 441-443; service_nettoyage was built on the uploaded frame
NetDoublons ==
    /\ net.pc = "doublons"
    /\ net' = IF net.parametres.supprimer_doublons
              THEN [net EXCEPT !.pc = "manquantes",
                               !.donnees = gerer_les_valeurs_duplicates(net.brutes),
                               !.journal = Append(@, "doublons")]
              ELSE [net EXCEPT !.pc = "manquantes"]
    /\ UNCHANGED <<varsViz, chg, sto, bdd>>

\* Faulty variant: the missing-value pass is given the uploaded frame
CibleManquantesBrutes == net.brutes

\* lines 445 and 447: Netoyage(donnees), donnees being the local variable
\* the duplicate pass has reassigned
CibleManquantes == net.donnees

\* lines 444-447
NetManquantes ==
    /\ net.pc = "manquantes"
    /\ LET choix == ChoixManquantes(net.parametres) IN
       net' = IF choix = "rien"
              THEN [net EXCEPT !.pc = "repondre"]
              ELSE [net EXCEPT !.pc = "repondre",
                               !.donnees = gerer_les_valeurs_manquantes(CibleManquantes, choix),
                               !.journal = Append(@, choix)]
    /\ UNCHANGED <<varsViz, chg, sto, bdd>>

\* lines 449-454
NetRepondre ==
    /\ net.pc = "repondre"
    /\ net' = [net EXCEPT !.pc = "fin",
                          !.reponse = [statut |-> 200, detail |-> "Nettoyage termine.",
                                       donnees_nettoyees |-> net.donnees]]
    /\ UNCHANGED <<varsViz, chg, sto, bdd>>

\* lines 441-447 as one function of the frame and the parameters
clean(f, p) ==
    LET d     == IF p.supprimer_doublons THEN gerer_les_valeurs_duplicates(f) ELSE f
        choix == ChoixManquantes(p)
    IN IF choix = "rien" THEN d ELSE gerer_les_valeurs_manquantes(d, choix)

NextNettoyage ==
    \/ NetRecevoir
    \/ NetLire
    \/ NetValider
    \/ NetDoublons
    \/ NetManquantes
    \/ NetRepondre

InitNet == net = NetAttente

----------------------------------------------------------------------------
(* DataLoader.load (packages/modules/loading.py) *)

\* where loading.py lives; the server runs in the directory Projet
FichierModule == <<"srv", "depot", "Projet", "packages", "modules", "loading.py">>

RepertoireCourant == <<"srv", "depot", "Projet">>

\* Path.parents[i]
Parents(chemin, i) == SubSeq(chemin, 1, Len(chemin) - (i + 1))

\* PROJECT_ROOT = Path(__file__).resolve().parents[3]
PROJECT_ROOT == Parents(FichierModule, 3)

NomsDossier == {"..", "etc", "data", "depot"}

Extensions == {"", "csv", "CSV", "xlsx", "json", "yaml", "parquet", "sql", "png", "txt", "exe"}

RECURSIVE SeqsJusqua(_, _)
SeqsJusqua(S, n) ==
    IF n = 0 THEN {<<>>}
    ELSE LET T == SeqsJusqua(S, n - 1) IN
         T \cup {Append(t, x) : t \in {u \in T : Len(u) = n - 1}, x \in S}

\* a source string: its scheme prefix ("" for a path), whether the path is
\* absolute, the separator it is written with, its directories, and the
\* last component as base name and extension
SourcesLocales ==
    [schema : {""}, absolu : BOOLEAN, sep : {"/", "\\"},
     dossiers : SeqsJusqua(NomsDossier, MaxDossiers),
     base : {"f"}, ext : Extensions]

SourcesURL ==
    [schema : {"http://", "https://"}, absolu : {FALSE}, sep : {"/"},
     dossiers : {<<"data">>}, base : {"f"}, ext : Extensions]

\* what the environment answers: whether the path exists, how reading and
\* parsing end, and whether sql_query and db_path were both given
Environnements ==
    [existe : BOOLEAN, issue : {"ok", "parse", "encodage", "io"}, sql_fourni : BOOLEAN,
     premiere_ligne : {<<>>}]

\* characters of a first line: the four candidate separators and a letter
Caracteres == {";", "|", "\t", ",", "a"}

PremieresLignes == SeqsJusqua(Caracteres, MaxCaracteres)

\* str.lower() on the extensions of the model
Minuscule(e) == IF e = "CSV" THEN "csv" ELSE e

\* the environments a source is called in: a local delimited-text file that
\* exists and can be decoded has a first line
EnvironnementsDe(src) ==
    IF src.schema = "" /\ Minuscule(src.ext) = "csv"
    THEN Environnements
         \cup {[e EXCEPT !.premiere_ligne = l] :
                  e \in {f \in Environnements : f.existe /\ f.issue \in {"ok", "parse"}},
                  l \in PremieresLignes}
    ELSE Environnements

\* lines 59-60: backslashes become slashes
NormaliserSeparateurs(src) == IF src.sep = "\\" THEN [src EXCEPT !.sep = "/"] ELSE src

\* line 64
EstURL(src) == src.schema = "http://" \/ src.schema = "https://"

\* components of the path as pathlib splits it: a path still written with
\* backslashes is one single component
Composants(src) ==
    IF src.sep = "/" THEN Append(src.dossiers, src.base) ELSE <<src.base>>

\* walks the components from a starting directory: ".." leaves the current
\* directory (the root is its own parent)
RECURSIVE Empiler(_, _)
Empiler(pile, parts) ==
    IF parts = <<>> THEN pile
    ELSE IF Head(parts) = ".."
         THEN Empiler(IF pile = <<>> THEN <<>> ELSE SubSeq(pile, 1, Len(pile) - 1),
                      Tail(parts))
         ELSE Empiler(Append(pile, Head(parts)), Tail(parts))

\* Faulty variant: the path is made absolute without collapsing ".."
ResoudreSansPoints(src) ==
    (IF src.absolu THEN <<>> ELSE RepertoireCourant) \o Composants(src)

\* line 70: Path(file_path).resolve()
Resoudre(src) ==
    Empiler(IF src.absolu THEN <<>> ELSE RepertoireCourant, Composants(src))

\* line 73: file_path_abs.relative_to(PROJECT_ROOT) does not raise
EstSous(chemin, racine) ==
    /\ Len(chemin) >= Len(racine)
    /\ SubSeq(chemin, 1, Len(racine)) = racine

\* line 80: Path(file_path).suffix.lower().replace('.', '')
TypeDeFichier(src) == Minuscule(src.ext)

\* class DataLoader(BaseModel): the declared fields; model_config sets no
\* extra='allow'
ChampsDataLoader == {"df"}

\* BaseModel.__setattr__: assigning a name that is not a declared field
\* raises ValueError
SetAttr(nom) == IF nom \in ChampsDataLoader THEN "ok" ELSE "ValueError"

PasDException == [type |-> "", message |-> "", cause |-> ""]

Exc(type, message) == [type |-> type, message |-> message, cause |-> ""]

\* lines 204-206: except Exception as e: raise Exception(f"...: {e}")
Englober(e) ==
    [type |-> "Exception", message |-> "Une erreur est survenue lors du chargement",
     cause |-> e.message]

\* lines 200-206: FileNotFoundError and ParserError pass, the rest is wrapped
Filtrer(e) == IF e.type \in {"FileNotFoundError", "ParserError"} THEN e ELSE Englober(e)

\* how load ends: the exception that leaves it, the kind of value it
\* returns, the calls it made, and the separator handed to pd.read_csv
Resultat(exc, valeur, etapes) ==
    [exc |-> exc, valeur |-> valeur, journal |-> etapes, sep |-> ""]

\* line 137
sepateur_valeurs == <<";", "|", "\t", ",">>

\* "sep in premiere_ligne"
Contient(ligne, c) == \E i \in 1..Len(ligne) : ligne[i] = c

\* lines 138-147: index_sepateur starts at the first entry and becomes the
\* index of the first entry of sepateur_valeurs found in the line
RECURSIVE index_sepateur(_, _)
index_sepateur(ligne, i) ==
    IF i > Len(sepateur_valeurs) THEN 1
    ELSE IF Contient(ligne, sepateur_valeurs[i]) THEN i
         ELSE index_sepateur(ligne, i + 1)

\* line 150: the sep argument of pd.read_csv
Separateur(ligne) == sepateur_valeurs[index_sepateur(ligne, 1)]

\* the exception a read or parse call of the given library raises
ErreurDeLecture(issue, pandas) ==
    IF issue = "parse" /\ pandas THEN Exc("ParserError", "Erreur de parsing")
    ELSE IF issue = "parse" THEN Exc("ValueError", "contenu mal forme")
    ELSE IF issue = "encodage" THEN Exc("UnicodeDecodeError", "codec can't decode")
    ELSE Exc("OSError", "erreur d'entree-sortie")

\* lines 90-126: the source is a URL
CorpsURL(t, env, etapes) ==
    IF t \in {"csv", "xls", "xlsx"}
    THEN IF env.issue = "ok"
         THEN Resultat(PasDException, "DataFrame", Append(etapes, "read"))
         ELSE Resultat(Filtrer(ErreurDeLecture(env.issue, t = "csv")), "",
                       Append(etapes, "read"))
    ELSE IF env.issue = "io"
         THEN Resultat(Englober(Exc("Exception", "Erreur de telechargement de l'URL")), "",
                       Append(etapes, "get"))
         ELSE IF t \in {"json", "yaml", "yml"}
              THEN IF env.issue = "ok"
                   THEN Resultat(PasDException, "DataFrame", etapes \o <<"get", "read">>)
                   ELSE Resultat(Englober(ErreurDeLecture(env.issue, FALSE)), "",
                                 etapes \o <<"get", "read">>)
              ELSE IF t = "txt"
                   THEN Resultat(PasDException, "str", etapes \o <<"get", "read">>)
                   ELSE Resultat(Englober(Exc("ValueError",
                                              "Format de fichier distant non supporte")),
                                 "", Append(etapes, "get"))

TypesLocaux == {"csv", "xls", "xlsx", "json", "yaml", "yml", "parquet", "png", "jpg",
                "jpeg", "txt"}

\* lines 131-192: the source is a local path
CorpsLocal(t, env, etapes) ==
    IF ~env.existe
    THEN Resultat(Filtrer(Exc("FileNotFoundError", "introuvable")), "",
                  Append(etapes, "exists"))
    ELSE IF t = "csv" /\ env.issue \in {"ok", "parse"}
         THEN [Resultat(IF env.issue = "ok" THEN PasDException
                        ELSE Filtrer(ErreurDeLecture(env.issue, TRUE)),
                        IF env.issue = "ok" THEN "DataFrame" ELSE "",
                        etapes \o <<"exists", "open", "read">>)
               EXCEPT !.sep = Separateur(env.premiere_ligne)]
    ELSE IF t \in TypesLocaux \/ (t = "sql" /\ env.sql_fourni)
         THEN IF env.issue = "ok"
              THEN Resultat(PasDException,
                            IF t = "txt" THEN "str"
                            ELSE IF t \in {"png", "jpg", "jpeg"} THEN "ndarray"
                                 ELSE "DataFrame",
                            etapes \o <<"exists", "open", "read">>)
              ELSE IF t = "csv" /\ env.issue \in {"encodage", "io"}
                   \* the first line is read before pandas parses the file
                   THEN Resultat(Filtrer(ErreurDeLecture(env.issue, FALSE)), "",
                                 etapes \o <<"exists", "open">>)
                   ELSE Resultat(Filtrer(ErreurDeLecture(env.issue, t = "csv")), "",
                                 etapes \o <<"exists", "open", "read">>)
         ELSE Resultat(Englober(Exc("ValueError", "Format de fichier local non supporte")),
                       "", Append(etapes, "exists"))

\* DataLoader.load(file_path, sql_query, db_path)
load(source, env) ==
    LET src == NormaliserSeparateurs(source) IN
    IF ~EstURL(src) /\ ~EstSous(Resoudre(src), PROJECT_ROOT)
    THEN Resultat(Exc("ValueError", "Acces non autorise"), "", <<"resolve", "relative_to">>)
    ELSE LET e1 == (IF EstURL(src) THEN <<>> ELSE <<"resolve", "relative_to">>)
                      \o <<"suffix", "setattr">>
         IN IF SetAttr("format") # "ok"
            THEN Resultat(Exc("ValueError", "object has no field"), "", e1)
            ELSE IF EstURL(src)
                 THEN CorpsURL(TypeDeFichier(src), env, e1)
                 ELSE CorpsLocal(TypeDeFichier(src), env, e1)

ChgAttente ==
    [pc |-> "attente",
     source |-> [schema |-> "", absolu |-> FALSE, sep |-> "/", dossiers |-> <<>>,
                 base |-> "", ext |-> ""],
     env |-> [existe |-> FALSE, issue |-> "ok", sql_fourni |-> FALSE,
              premiere_ligne |-> <<>>],
     resultat |-> Resultat(PasDException, "", <<>>)]

\* a caller hands a source to load
LoadAppeler ==
    /\ chg.pc = "attente"
    /\ \E src \in SourcesLocales \cup SourcesURL :
       \E env \in EnvironnementsDe(src) :
          chg' = [chg EXCEPT !.pc = "appel", !.source = src, !.env = env]
    /\ UNCHANGED <<varsViz, net, sto, bdd>>

\* load runs to its return or to the exception that leaves it
LoadExecuter ==
    /\ chg.pc = "appel"
    /\ chg' = [chg EXCEPT !.pc = "fin", !.resultat = load(chg.source, chg.env)]
    /\ UNCHANGED <<varsViz, net, sto, bdd>>

NextLoad == LoadAppeler \/ LoadExecuter

InitChg == chg = ChgAttente

----------------------------------------------------------------------------
(* Concurrent visualisation requests on the shared directory               *)
(* storage/renders: each run is the tail of reduire_visualiser_2d/3d, from *)
(* the return of creer_graphique_interactif to the response.               *)

Rendus == 1..MaxRendus

\* the values uuid.uuid4() can return
UUIDs == 1..(MaxRendus + 1)

\* the HTML a run renders, in two pieces (a write may reach the disk in part)
ContenuDe(r) == << <<"html", r>>, <<"fin", r>> >>

FichierAbsent == [etat |-> "absent", contenu |-> <<>>]

\* Faulty variant: a value already returned may be returned again
uuid4Repete(emis) == UUIDs

\* line 164: uuid.uuid4() is a random 122-bit value; the model takes it as a
\* value that no earlier call returned
uuid4(emis) == UUIDs \ emis

\* Faulty variant: the locator is returned while the file is still open
PeutRetournerAvantFermeture(r) == sto.runs[r].pc \in {"ouvert", "ecrit", "ferme"}

\* lines 167-170: the return statement follows the end of the with block
PeutRetourner(r) == sto.runs[r].pc = "ferme"

StoAttente ==
    [runs    |-> [r \in Rendus |-> [pc |-> "attente", contenu |-> <<>>, nom |-> 0,
                                    statut |-> 0, url_rendu |-> 0]],
     dossier |-> [n \in UUIDs |-> FichierAbsent],
     emis    |-> {}]

\* lines 536 / 580: creer_graphique_interactif returns the HTML or raises
StoOrchestrer(r) ==
    /\ sto.runs[r].pc = "attente"
    /\ \E issue \in {"ok", "raise"} :
         sto' = IF issue = "ok"
                THEN [sto EXCEPT !.runs[r].pc = "rendu", !.runs[r].contenu = ContenuDe(r)]
                ELSE [sto EXCEPT !.runs[r].pc = "fin", !.runs[r].statut = 500]
    /\ UNCHANGED <<varsViz, net, chg, bdd>>

\* lines 164-165: nom_fichier and chemin_fichier
StoNommer(r) ==
    /\ sto.runs[r].pc = "rendu"
    /\ \E u \in uuid4(sto.emis) :
         sto' = [sto EXCEPT !.runs[r].pc = "nomme", !.runs[r].nom = u,
                            !.emis = @ \cup {u}]
    /\ UNCHANGED <<varsViz, net, chg, bdd>>

\* line 167: open(chemin_fichier, "w") creates the file, or truncates the
\* file that already carries the name
StoOuvrir(r) ==
    /\ sto.runs[r].pc = "nomme"
    /\ \E issue \in {"ok", "raise"} :
         sto' = IF issue = "ok"
                THEN [sto EXCEPT !.runs[r].pc = "ouvert",
                                 !.dossier[sto.runs[r].nom] =
                                     [etat |-> "ouvert", contenu |-> <<>>]]
                ELSE [sto EXCEPT !.runs[r].pc = "fin", !.runs[r].statut = 500]
    /\ UNCHANGED <<varsViz, net, chg, bdd>>

\* line 168: f.write(contenu_html); the text is buffered, any prefix of it
\* may have reached the file; an I/O error leaves the with block, which
\* closes the file
StoEcrire(r) ==
    /\ sto.runs[r].pc = "ouvert"
    /\ \/ \E k \in 0..Len(sto.runs[r].contenu) :
            sto' = [sto EXCEPT !.runs[r].pc = "ecrit",
                               !.dossier[sto.runs[r].nom].contenu =
                                   SubSeq(sto.runs[r].contenu, 1, k)]
       \/ sto' = [sto EXCEPT !.runs[r].pc = "fin", !.runs[r].statut = 500,
                             !.dossier[sto.runs[r].nom].etat = "tronque"]
    /\ UNCHANGED <<varsViz, net, chg, bdd>>

\* end of the with block: the buffer is flushed and the file closed
StoFermer(r) ==
    /\ sto.runs[r].pc = "ecrit"
    /\ sto' = [sto EXCEPT !.runs[r].pc = "ferme",
                          !.dossier[sto.runs[r].nom] =
                              [etat |-> "ecrit", contenu |-> sto.runs[r].contenu]]
    /\ UNCHANGED <<varsViz, net, chg, bdd>>

\* line 170 and lines 541-547: the locator goes back to the caller
StoRetourner(r) ==
    /\ PeutRetourner(r)
    /\ sto' = [sto EXCEPT !.runs[r].pc = "repondu", !.runs[r].statut = 200,
                          !.runs[r].url_rendu = sto.runs[r].nom]
    /\ UNCHANGED <<varsViz, net, chg, bdd>>

NextStockage ==
    \E r \in Rendus :
        \/ StoOrchestrer(r)
        \/ StoNommer(r)
        \/ StoOuvrir(r)
        \/ StoEcrire(r)
        \/ StoFermer(r)
        \/ StoRetourner(r)

InitSto == sto = StoAttente

----------------------------------------------------------------------------
(* SauvegardeBDD.sauvegarder_en_sqlite (packages/modules/sauvegarde_bdd.py) *)

\* column lists of the frames and tables of the model
ColonnesBdd == { <<"a">>, <<"a", "b">> }

\* the rows a frame or a table of the given columns can hold
LignesBdd(cols) ==
    UNION { [1..n -> [1..Len(cols) -> {1, 2}]] : n \in 0..MaxLignesTable }

\* the frames handed to SauvegardeBDD (the index is not written: index=False)
FramesBdd == UNION { {[cols |-> c, lignes |-> l] : l \in LignesBdd(c)} : c \in ColonnesBdd }

TableAbsente == [existe |-> FALSE, cols |-> <<>>, lignes |-> <<>>]

TablesBdd ==
    {TableAbsente}
    \cup UNION { {[existe |-> TRUE, cols |-> c, lignes |-> l] : l \in LignesBdd(c)}
                 : c \in ColonnesBdd }

Politiques == {"fail", "replace", "append"}

NULL == 0

\* a row of the frame laid out on the columns of the table; a column the
\* frame does not have is NULL
LigneSurTable(ligne, fcols, tcols) ==
    [j \in 1..Len(tcols) |->
        IF \E h \in 1..Len(fcols) : fcols[h] = tcols[j]
        THEN ligne[CHOOSE h \in 1..Len(fcols) : fcols[h] = tcols[j]]
        ELSE NULL]

\* lines 54-59: self.df.to_sql(nom_table, con=moteur, if_exists=si_existe,
\* index=False); io: the database cannot be opened or written
to_sql(df, table, if_exists, io) ==
    IF io THEN [exc |-> "OperationalError", table |-> table]
    ELSE IF ~table.existe
         THEN [exc |-> "", table |-> [existe |-> TRUE, cols |-> df.cols, lignes |-> df.lignes]]
         ELSE CASE if_exists = "fail" ->
                     [exc |-> "ValueError: Table already exists", table |-> table]
                [] if_exists = "replace" ->
                     [exc |-> "",
                      table |-> [existe |-> TRUE, cols |-> df.cols, lignes |-> df.lignes]]
                [] if_exists = "append" ->
                     IF Range(df.cols) \subseteq Range(table.cols)
                     THEN [exc |-> "",
                           table |-> [table EXCEPT !.lignes =
                                         @ \o [i \in 1..Len(df.lignes) |->
                                                 LigneSurTable(df.lignes[i], df.cols,
                                                               table.cols)]]]
                     ELSE [exc |-> "OperationalError", table |-> table]

\* Faulty variant: the exception is logged and a success is returned
ApresExceptionAvalee(e) == [exc |-> "", status |-> "success"]

\* lines 65-68: except Exception as e: print(...); raise e
ApresException(e) == [exc |-> e, status |-> ""]

\* lines 43-68
sauvegarder_en_sqlite(df, table, si_existe, io) ==
    LET r == to_sql(df, table, si_existe, io) IN
    IF r.exc = ""
    THEN [table |-> r.table, exc |-> "", retour |-> [status |-> "success", lignes |-> Len(df.lignes)]]
    ELSE LET a == ApresException(r.exc) IN
         [table |-> r.table, exc |-> a.exc, retour |-> [status |-> a.status, lignes |-> 0]]

BddAttente ==
    [pc |-> "attente", df |-> [cols |-> <<>>, lignes |-> <<>>], si_existe |-> "fail",
     io |-> FALSE, avant |-> TableAbsente, table |-> TableAbsente, exc |-> "",
     retour |-> [status |-> "", lignes |-> 0]]

\* a caller builds SauvegardeBDD(df) and calls sauvegarder_en_sqlite on a
\* database in which the table is absent or present
BddAppeler ==
    /\ bdd.pc = "attente"
    /\ \E f \in FramesBdd, t \in TablesBdd, p \in Politiques, io \in BOOLEAN :
          bdd' = [bdd EXCEPT !.pc = "appel", !.df = f, !.si_existe = p, !.io = io,
                             !.avant = t, !.table = t]
    /\ UNCHANGED <<varsViz, net, chg, sto>>

\* the call runs to its return or to the exception that leaves it
BddExecuter ==
    /\ bdd.pc = "appel"
    /\ LET r == sauvegarder_en_sqlite(bdd.df, bdd.table, bdd.si_existe, bdd.io) IN
       bdd' = [bdd EXCEPT !.pc = "fin", !.table = r.table, !.exc = r.exc,
                          !.retour = r.retour]
    /\ UNCHANGED <<varsViz, net, chg, sto>>

NextBdd == BddAppeler \/ BddExecuter

InitBdd == bdd = BddAttente

Init == InitViz /\ InitNet /\ InitChg /\ InitSto /\ InitBdd

Next ==
    \/ Recevoir
    \/ LireTeleversement
    \/ ValiderParametres
    \/ PreparerDonnees
    \/ GererCouleur
    \/ SelectionnerMethode
    \/ ExecuterReduction
    \/ PreparerDataFrame
    \/ GenererGraphique
    \/ OuvrirFichier
    \/ EcrireFichier
    \/ Repondre

Spec == Init /\ [][Next]_vars

SpecNettoyage == Init /\ [][NextNettoyage]_vars

SpecLoad == Init /\ [][NextLoad]_vars

SpecStockage == Init /\ [][NextStockage]_vars

SpecBdd == Init /\ [][NextBdd]_vars


----------------------------------------------------------------------------
(* Properties of the visualisation request (checked under Spec) *)

GraphiqueConstruit == donnees_graphique # FrameVide

Succes == pc = "fin" /\ reponse.statut = 200

Invoque(e) == e \in Range(journal)

EstSelectionOuStrategie(e) ==
    e \in {"AutoSelector", "MethodeACP", "MethodeTSNE", "MethodeUMAP"}

\* keys of the rows of df that hold a value in column nom
ClesAvecValeur(df, nom) ==
    {df.lignes[i].cle : i \in {h \in 1..Len(df.lignes) :
                                 df.lignes[h].cellules[PosColonne(df, nom)] # NA}}

\* keys of the raw rows that hold no missing value
ClesCompletes(df) ==
    {df.lignes[i].cle : i \in {h \in 1..Len(df.lignes) : SansNA(df.lignes[h])}}

\* C1 (alignment): whenever the result frame has been built for a request
\* that names a label column, the row keys carrying a label value are
\* exactly the row keys of the numeric subset, and each label value is the
\* value the cleaned frame holds at that row key.
C1_AlignementCouleur ==
    (GraphiqueConstruit /\ CouleurDemandee(requete.parametres)) =>
        LET nom == NomCouleur(requete.parametres)
            g   == donnees_graphique
        IN /\ nom \in Colonnes(g)
           /\ ClesAvecValeur(g, nom) = Range(Index(donnees_numeriques))
           /\ \A i \in 1..Len(g.lignes) :
                 /\ g.lignes[i].cle \in Range(Index(donnees_propres))
                 /\ g.lignes[i].cellules[PosColonne(g, nom)] =
                       LigneDeCle(donnees_propres, g.lignes[i].cle)
                          .cellules[PosColonne(donnees_propres, nom)]

\* C1 witness: a successful request with a label column in which a row
\* other than the last was dropped, so that keys and positions differ.
C1_Temoin ==
    /\ Succes
    /\ CouleurDemandee(requete.parametres)
    /\ \E i \in 1..Len(donnees_graphique.lignes) : donnees_graphique.lignes[i].cle # i - 1

\* C2 (row count): whenever the result frame has been built, its row keys
\* are, in order, the row keys of the numeric subset; that subset holds
\* exactly the raw rows without a missing value; the count is at most the
\* raw count and smaller when a row was dropped.
C2_NombreDeLignes ==
    GraphiqueConstruit =>
        LET g == donnees_graphique IN
        /\ Len(g.lignes) = Len(donnees_numeriques.lignes)
        /\ Index(g) = Index(donnees_numeriques)
        /\ Range(Index(donnees_numeriques)) = ClesCompletes(donnees_brutes)
        /\ Len(g.lignes) <= Len(donnees_brutes.lignes)
        /\ (ClesCompletes(donnees_brutes) # Range(Index(donnees_brutes))
              => Len(g.lignes) < Len(donnees_brutes.lignes))

\* C2 witness: a successful request whose result has fewer rows than the
\* raw frame and keeps a key that is not its position.
C2_Temoin ==
    /\ Succes
    /\ Len(donnees_graphique.lignes) < Len(donnees_brutes.lignes)
    /\ \E i \in 1..Len(donnees_graphique.lignes) : donnees_graphique.lignes[i].cle # i - 1

\* C4 (no partial application): a request that ended in failure before the
\* artifact was written (upload, validation, preparation, label lookup,
\* strategy, rendering) leaves the storage directory empty; no failed
\* request returns a locator; a stored file exists only once the result
\* frame was built and rendered.
C4_PasDApplicationPartielle ==
    /\ (pc = "fin" /\ reponse.statut # 200 /\ ~Invoque("write")) => stockage = <<>>
    /\ reponse.statut # 200 => reponse.url_rendu = ""
    /\ stockage # <<>> =>
          /\ GraphiqueConstruit
          /\ contenu_html = <<donnees_graphique, nom_methode, requete.n_composantes>>

\* C4 witness: the strategy failed and nothing was stored.
C4_Temoin ==
    /\ pc = "fin"
    /\ reponse.statut = 500
    /\ \E e \in Range(journal) : e \in {"MethodeACP", "MethodeTSNE", "MethodeUMAP"}
    /\ ~Invoque("plotly")
    /\ stockage = <<>>

CouleurAbsente ==
    /\ CouleurDemandee(requete.parametres)
    /\ NomCouleur(requete.parametres) \notin Colonnes(donnees_brutes)

\* C5 as stated: an orchestrator run whose request names a label column
\* absent from the raw frame ends with LabelColumnNotFound (404), without
\* strategy or artifact.
C5_Original ==
    (pc = "fin" /\ Invoque("Netoyage") /\ CouleurAbsente) =>
        /\ reponse.statut = 404
        /\ \A e \in Range(journal) : ~EstSelectionOuStrategie(e)
        /\ stockage = <<>>

\* C5 amended: an orchestrator run whose request names a label column
\* absent from the raw frame ends with LabelColumnNotFound (404) when the
\* numeric subset is not empty and with NoNumericColumns (400) when it is
\* empty; in both cases no selector, strategy or artifact; 404 is answered
\* only for a name absent from the raw frame's columns, so a non-numeric
\* column of the raw frame is accepted.
C5_ColonneCouleurIntrouvable ==
    /\ (Invoque("Netoyage") /\ CouleurAbsente) =>
          /\ \A e \in Range(journal) : ~EstSelectionOuStrategie(e)
          /\ stockage = <<>>
          /\ pc \in {"couleur", "fin"}
    /\ (pc = "fin" /\ Invoque("Netoyage") /\ CouleurAbsente) =>
          IF Empty(donnees_numeriques)
          THEN reponse.statut = 400
          ELSE reponse.statut = 404 /\ reponse.detail = "Colonne de couleur introuvable"
    /\ reponse.statut = 404 => CouleurAbsente

\* C5 witness: a run with a numeric subset ended with 404 for an absent
\* label column.
C5_Temoin ==
    /\ pc = "fin"
    /\ reponse.statut = 404
    /\ CouleurAbsente
    /\ ~Empty(donnees_numeriques)

\* C6 (eager guard): the selector and the strategies are invoked only after
\* the drop-missing pass and the numeric extraction, in that order; a run
\* whose numeric subset has no column or no row ends with NoNumericColumns
\* (400) and invokes neither the selector nor a strategy.
C6_GardeAnticipee ==
    /\ \A i \in 1..Len(journal) :
          EstSelectionOuStrategie(journal[i]) =>
             \E a \in 1..(i-1), b \in 1..(i-1) :
                a < b /\ journal[a] = "Netoyage" /\ journal[b] = "Numeric_data"
    /\ nom_methode # "" => Invoque("Numeric_data")
    /\ (Invoque("Numeric_data")
          /\ (Len(donnees_numeriques.cols) = 0 \/ Len(donnees_numeriques.lignes) = 0)) =>
             /\ pc = "fin"
             /\ reponse.statut = 400
             /\ reponse.detail = "Erreur de preparation des donnees"
             /\ nom_methode = ""
             /\ \A e \in Range(journal) : ~EstSelectionOuStrategie(e)

\* C6 witness: an 'auto' request on a frame with a numeric column whose
\* rows were all dropped ended with 400.
C6_Temoin ==
    /\ pc = "fin"
    /\ reponse.statut = 400
    /\ requete.methode = "auto"
    /\ Invoque("Numeric_data")
    /\ Len(donnees_numeriques.cols) > 0
    /\ Len(donnees_brutes.lignes) > 0
    /\ Len(donnees_numeriques.lignes) = 0

\* C7 (coordinate columns of the result): whenever the result frame has
\* been built, its first n_composantes columns are the coordinate columns
\* <M>_1..<M>_k, numeric, holding the coordinates the strategy returned:
\* attaching the label neither replaced nor removed one of them.
C7_ColonnesDeCoordonnees ==
    GraphiqueConstruit =>
        LET g    == donnees_graphique
            k    == requete.n_composantes
            noms == NomsColonnes(nom_methode, k)
        IN /\ Len(g.cols) >= k
           /\ \A j \in 1..k : g.cols[j] = [nom |-> noms[j], type |-> "num"]
           /\ \A i \in 1..Len(g.lignes) : \A j \in 1..k :
                 g.lignes[i].cellules[j] = donnees_reduites.mat[i][j]

\* C10 (perplexity boundary): a t-SNE run whose perplexity is at least the
\* number of rows of the numeric subset ends with a client error
\* (InvalidHyperparameter, status 4xx).
C10_BornePerplexite ==
    (pc = "fin" /\ nom_methode = "tsne"
        /\ requete.parametres.perplexite >= Len(donnees_numeriques.lignes)) =>
            (reponse.statut >= 400 /\ reponse.statut <= 499)

CausesReduction ==
    {"n_components trop grand", "perplexity must be less than n_samples", "erreur numerique"}

\* the strategy was entered and produced no coordinates: it raised
StrategieEchouee(m) ==
    pc = "fin" /\ Invoque(NomStrategie(m)) /\ ~donnees_reduites.present

\* C11 (reduction failure): when the strategy that was run raises, the
\* request ends with status 500 and a detail made of the upper-cased name of
\* that strategy (the selector's choice for 'auto') and the cause; nothing
\* runs after the strategy and nothing is stored.
C11_EchecDeReduction ==
    \A m \in Strategies :
        StrategieEchouee(m) =>
            /\ reponse.statut = 500
            /\ \E cause \in CausesReduction :
                  reponse.detail =
                      "Erreur lors de l'execution de " \o Majuscule(m) \o ": " \o cause
            /\ requete.methode # "auto" => m = requete.methode
            /\ journal[Len(journal)] = NomStrategie(m)
            /\ stockage = <<>>

C11_Temoin ==
    /\ StrategieEchouee("umap")
    /\ requete.methode = "auto"
    /\ reponse.statut = 500

\* positions of the journal at which a reduction strategy was entered
PosStrategies ==
    {i \in 1..Len(journal) : journal[i] \in {"MethodeACP", "MethodeTSNE", "MethodeUMAP"}}

PosSelecteur == {i \in 1..Len(journal) : journal[i] = "AutoSelector"}

\* C20 (strategy selection): at most one strategy is entered and at most
\* once; for an explicit method it is the requested one and AutoSelector
\* is not consulted; for 'auto' AutoSelector is consulted once, before the
\* strategy, and the strategy entered is the one it returned; after a
\* strategy that raised nothing else is invoked.
C20_SelectionDeStrategie ==
    /\ Cardinality(PosStrategies) <= 1
    /\ Cardinality(PosSelecteur) <= 1
    /\ requete.methode \in Strategies =>
          /\ PosSelecteur = {}
          /\ \A i \in PosStrategies : journal[i] = NomStrategie(requete.methode)
    /\ requete.methode = "auto" =>
          \A i \in PosStrategies :
             /\ nom_methode \in Strategies
             /\ journal[i] = NomStrategie(nom_methode)
             /\ \E h \in PosSelecteur : h < i
    /\ \A m \in Strategies :
          StrategieEchouee(m) => PosStrategies = {Len(journal)}

\* C20 witness: an 'auto' request for which the selector returned 'acp'
\* ended in success.
C20_Temoin ==
    /\ Succes
    /\ requete.methode = "auto"
    /\ nom_methode = "acp"
    /\ Invoque("AutoSelector")
    /\ Invoque("MethodeACP")

\* the selection has run and left a name that is none of the strategies
MethodeInconnue == nom_methode # "" /\ nom_methode \notin Strategies

\* C21 (default arm): when the method name in effect after the selection is
\* none of acp, tsne, umap, no strategy is entered, no coordinates and no
\* column names exist, no result frame is built, neither the renderer nor
\* the storage is reached, and the request ends with status 500 and the
\* detail of the failed reduction.
C21_BrancheParDefaut ==
    MethodeInconnue =>
        /\ pc \in {"reduction", "dataframe", "fin"}
        /\ PosStrategies = {}
        /\ ~donnees_reduites.present
        /\ noms_colonnes = <<>>
        /\ ~GraphiqueConstruit
        /\ contenu_html = <<>>
        /\ stockage = <<>>
        /\ ~Invoque("plotly") /\ ~Invoque("open") /\ ~Invoque("write")
        /\ pc = "fin" =>
              /\ reponse.statut = 500
              /\ reponse.detail = "Echec de la reduction de dimension"
              /\ reponse.url_rendu = ""

\* C21 witness: an 'auto' request for which the selector returned an
\* unknown name has ended.
C21_Temoin ==
    /\ pc = "fin"
    /\ requete.methode = "auto"
    /\ nom_methode = "autre"
    /\ Invoque("AutoSelector")
    /\ reponse.statut = 500

\* a numeric column of df that holds a value in every row
ColonneNumeriqueComplete(df) ==
    \E j \in 1..Len(df.cols) :
        /\ df.cols[j].type = "num"
        /\ \A i \in 1..Len(df.lignes) : df.lignes[i].cellules[j] # NA

\* C15 (populated numeric column): once the drop-missing pass and the
\* numeric extraction have run on an upload of at least one row that has a
\* numeric column without missing value, the numeric subset is not empty
\* and the request has not ended with the 400 of the empty subset.
C15_ColonneNumeriquePeuplee ==
    (Invoque("Numeric_data") /\ Len(donnees_brutes.lignes) >= 1
        /\ ColonneNumeriqueComplete(donnees_brutes)) =>
            /\ ~Empty(donnees_numeriques)
            /\ reponse.statut # 400


----------------------------------------------------------------------------
(* Properties of the cleaning request (checked under SpecNettoyage) *)

Imputations == {"mean", "median", "fill"}

\* C8 (drop wins): once the missing-value step of a request with
\* supprimer_na has run, no row of the frame holds a missing value, every
\* row is a row of the upload with its key and its values unchanged, every
\* complete row of the upload is kept when duplicates are not removed, and
\* no imputation was applied, whatever strategie_imputation is; an
\* imputation is applied only without supprimer_na and is the one given.
C8_SuppressionPrioritaire ==
    /\ (net.pc \in {"repondre", "fin"} /\ net.reponse.statut \in {0, 200}
          /\ net.parametres.supprimer_na) =>
          /\ \A i \in 1..Len(net.donnees.lignes) :
                /\ SansNA(net.donnees.lignes[i])
                /\ net.donnees.lignes[i].cle \in Range(Index(net.brutes))
                /\ net.donnees.lignes[i] = LigneDeCle(net.brutes, net.donnees.lignes[i].cle)
          /\ Range(Index(net.donnees)) \subseteq ClesCompletes(net.brutes)
          /\ (~net.parametres.supprimer_doublons
                => Range(Index(net.donnees)) = ClesCompletes(net.brutes))
          /\ \A e \in Range(net.journal) : e \notin Imputations
    /\ \A e \in Range(net.journal) :
          e \in Imputations =>
             /\ ~net.parametres.supprimer_na
             /\ e = net.parametres.strategie_imputation

\* C8 witness: a finished request with supprimer_na and an imputation
\* strategy, on an upload with a missing value, that kept a row.
C8_Temoin ==
    /\ net.pc = "fin"
    /\ net.reponse.statut = 200
    /\ net.parametres.supprimer_na
    /\ net.parametres.strategie_imputation \in Imputations
    /\ ClesCompletes(net.brutes) # Range(Index(net.brutes))
    /\ Len(net.donnees.lignes) > 0

DeuxEtapes ==
    /\ net.pc \in {"repondre", "fin"}
    /\ net.reponse.statut \in {0, 200}
    /\ net.parametres.supprimer_doublons
    /\ ChoixManquantes(net.parametres) # "rien"

\* C13 (cleaning order): when duplicate removal and a missing-value
\* handling are both enabled, the duplicate pass ran first, the
\* missing-value pass ran second on the de-duplicated frame, and the frame
\* is the result of that composition; no pass ever runs twice and the
\* duplicate pass never follows a missing-value pass.
C13_OrdreDeNettoyage ==
    /\ DeuxEtapes =>
          /\ net.journal = <<"doublons", ChoixManquantes(net.parametres)>>
          /\ net.donnees =
                gerer_les_valeurs_manquantes(gerer_les_valeurs_duplicates(net.brutes),
                                             ChoixManquantes(net.parametres))
    /\ \A i, j \in 1..Len(net.journal) :
          /\ (i # j => net.journal[i] # net.journal[j])
          /\ (i < j => net.journal[j] # "doublons")
    /\ Len(net.journal) <= 2

\* C13 witness: a finished request with both passes whose result differs
\* from what the opposite order gives.
C13_Temoin ==
    /\ DeuxEtapes
    /\ net.pc = "fin"
    /\ net.parametres.strategie_imputation = "mean"
    /\ net.donnees #
          gerer_les_valeurs_duplicates(
              gerer_les_valeurs_manquantes(net.brutes, ChoixManquantes(net.parametres)))

\* C14 (idempotence): cleaning the cleaned frame of a finished request
\* again with the same parameters gives the same frame: same rows, same
\* keys, same values.
C14_Idempotence ==
    (net.pc = "fin" /\ net.reponse.statut = 200) =>
        /\ net.reponse.donnees_nettoyees = clean(net.brutes, net.parametres)
        /\ clean(net.reponse.donnees_nettoyees, net.parametres)
              = net.reponse.donnees_nettoyees


----------------------------------------------------------------------------
(* Properties of DataLoader.load (checked under SpecLoad) *)

\* where the path of a local source really leads
Emplacement(source) ==
    Empiler(IF source.absolu THEN <<>> ELSE RepertoireCourant,
            Append(source.dossiers, source.base))

HorsRacine(source) ==
    /\ source.schema = ""
    /\ ~( /\ Len(Emplacement(source)) >= Len(PROJECT_ROOT)
          /\ SubSeq(Emplacement(source), 1, Len(PROJECT_ROOT)) = PROJECT_ROOT )

Classe(e) ==
    IF e.type = "ValueError" /\ e.message = "Acces non autorise" THEN "AccessDenied"
    ELSE IF e.type = "FileNotFoundError" THEN "NotFound"
    ELSE IF e.type = "ParserError" THEN "ParseError"
    ELSE IF e.type = "Exception" /\ e.cause \in {"Format de fichier distant non supporte",
                                                "Format de fichier local non supporte"}
         THEN "UnsupportedFormat"
    ELSE IF e.type = "Exception" /\ e.cause = "Erreur de telechargement de l'URL"
         THEN "SourceUnreachable"
    ELSE "NonClassee"

\* C9 (classified failures): every exception that leaves load is of one of
\* the kinds AccessDenied, NotFound, ParseError, UnsupportedFormat,
\* SourceUnreachable.
C9_EchecsClasses ==
    (chg.pc = "fin" /\ chg.resultat.exc # PasDException) =>
        Classe(chg.resultat.exc) \in
            {"AccessDenied", "NotFound", "ParseError", "UnsupportedFormat", "SourceUnreachable"}

TypesDistants == {"csv", "xls", "xlsx", "json", "yaml", "yml", "txt"}

\* C16 (remote formats): load on a URL whose extension is none of the
\* delimited-text, spreadsheet, JSON, YAML and plain-text extensions ends
\* with the unsupported-format failure and returns nothing; a URL source
\* that load returns a value for carries one of those extensions.
C16_FormatsDistants ==
    (chg.pc = "fin" /\ EstURL(chg.source)) =>
        /\ TypeDeFichier(chg.source) \notin TypesDistants =>
              /\ Classe(chg.resultat.exc) = "UnsupportedFormat"
              /\ chg.resultat.valeur = ""
        /\ chg.resultat.valeur # "" => TypeDeFichier(chg.source) \in TypesDistants

\* the extension of a local source is one load has an arm for
ExtensionLocaleSupportee ==
    \/ Minuscule(chg.source.ext) \in {"csv", "xls", "xlsx", "json", "yaml", "yml",
                                      "parquet", "png", "jpg", "jpeg", "txt"}
    \/ Minuscule(chg.source.ext) = "sql" /\ chg.env.sql_fourni

\* C22 (failure precedence): load on a local source fails with AccessDenied
\* when the path leads outside the root, whatever else holds; with NotFound
\* when the path is inside the root and does not exist, whatever its
\* extension; with UnsupportedFormat when the path is inside the root,
\* exists and its extension is not supported (an SQL source without query
\* and database path included); and it fails with UnsupportedFormat only
\* for a path that is inside the root and exists.
C22_PrecedenceDesEchecs ==
    (chg.pc = "fin" /\ chg.source.schema = "") =>
        /\ HorsRacine(chg.source) => Classe(chg.resultat.exc) = "AccessDenied"
        /\ (~HorsRacine(chg.source) /\ ~chg.env.existe) =>
              Classe(chg.resultat.exc) = "NotFound"
        /\ (~HorsRacine(chg.source) /\ chg.env.existe /\ ~ExtensionLocaleSupportee) =>
              Classe(chg.resultat.exc) = "UnsupportedFormat"
        /\ Classe(chg.resultat.exc) = "UnsupportedFormat" =>
              (~HorsRacine(chg.source) /\ chg.env.existe)

Candidats == <<";", "|", "\t", ",">>

RECURSIVE Occurrences(_, _)
Occurrences(ligne, c) ==
    IF ligne = <<>> THEN 0
    ELSE (IF Head(ligne) = c THEN 1 ELSE 0) + Occurrences(Tail(ligne), c)

\* the candidate that occurs most often in the line, the earlier candidate
\* on equal counts
PlusFrequent(ligne) ==
    Candidats[CHOOSE i \in 1..Len(Candidats) :
                 /\ \A h \in 1..Len(Candidats) :
                       Occurrences(ligne, Candidats[h]) <= Occurrences(ligne, Candidats[i])
                 /\ \A h \in 1..(i - 1) :
                       Occurrences(ligne, Candidats[h]) < Occurrences(ligne, Candidats[i])]

\* the first candidate, in priority order, that occurs in the line, and
\* the most frequent candidate when none occurs
DelimiteurAttendu(ligne) ==
    IF \E i \in 1..Len(Candidats) : Occurrences(ligne, Candidats[i]) > 0
    THEN Candidats[CHOOSE i \in 1..Len(Candidats) :
                      /\ Occurrences(ligne, Candidats[i]) > 0
                      /\ \A h \in 1..(i - 1) : Occurrences(ligne, Candidats[h]) = 0]
    ELSE PlusFrequent(ligne)

\* a local delimited-text file inside the root that exists and can be decoded
CSVLocalLisible ==
    /\ chg.pc = "fin"
    /\ chg.source.schema = ""
    /\ ~HorsRacine(chg.source)
    /\ TypeDeFichier(chg.source) = "csv"
    /\ chg.env.existe
    /\ chg.env.issue \in {"ok", "parse"}

\* C17 (delimiter detection): load on a readable local delimited-text file
\* hands to the parser the first of ';', '|', tab, ',' that occurs in the
\* first line, or the most frequent candidate when none occurs; a file
\* whose first line holds ';' and whose content parses is returned as a
\* frame parsed with ';'.
C17_DetectionDuDelimiteur ==
    CSVLocalLisible =>
        /\ chg.resultat.sep = DelimiteurAttendu(chg.env.premiere_ligne)
        /\ (Contient(chg.env.premiere_ligne, ";") /\ chg.env.issue = "ok") =>
              /\ chg.resultat.valeur = "DataFrame"
              /\ chg.resultat.sep = ";"

----------------------------------------------------------------------------
(* Properties of the artifact storage (checked under SpecStockage) *)

IdentifiantsDistincts ==
    \A r1, r2 \in Rendus :
        (r1 # r2 /\ sto.runs[r1].nom # 0 /\ sto.runs[r2].nom # 0) =>
            sto.runs[r1].nom # sto.runs[r2].nom

\* a file that was written and closed is the same in the next state
EcritureUnique ==
    \A n \in UUIDs :
        sto.dossier[n].etat = "ecrit" => sto'.dossier[n] = sto.dossier[n]

\* C12 (concurrent storage): in every interleaving of the runs, no two runs
\* carry the same artifact name, and a file that was written and closed is
\* never truncated or changed afterwards.
C12_StockageConcurrent == [](IdentifiantsDistincts) /\ [][EcritureUnique]_vars

C12_Temoin ==
    /\ sto.runs[1].pc = "ferme"
    /\ sto.runs[2].pc = "ouvert"
    /\ sto.dossier[sto.runs[1].nom].etat = "ecrit"
    /\ sto.dossier[sto.runs[2].nom].etat = "ouvert"

\* C18 (storage ordering): whenever a run has returned its locator, the file
\* the locator names is in the directory, closed, with the whole HTML of
\* that run.
C18_OrdreDeStockage ==
    \A r \in Rendus :
        sto.runs[r].url_rendu # 0 =>
            /\ sto.dossier[sto.runs[r].url_rendu].etat = "ecrit"
            /\ sto.dossier[sto.runs[r].url_rendu].contenu = ContenuDe(r)

C18_Temoin ==
    /\ sto.runs[1].pc = "repondu"
    /\ sto.runs[1].url_rendu # 0
    /\ sto.runs[2].pc = "ecrit"

----------------------------------------------------------------------------
(* Properties of the SQLite export (checked under SpecBdd) *)

BddSucces == bdd.exc = "" /\ bdd.retour.status = "success"

BddEchec == bdd.exc # "" /\ bdd.retour.status # "success"

\* the table holds the rows given, in order, on the columns of the frame
TientLesLignes(table, cols, lignes) ==
    /\ table.existe
    /\ Len(table.lignes) = Len(lignes)
    /\ \A i \in 1..Len(lignes) : \A h \in 1..Len(cols) :
          \E j \in 1..Len(table.cols) :
             table.cols[j] = cols[h] /\ table.lignes[i][j] = lignes[i][h]

\* C19 (export conflict policy): after a call, either a success was
\* returned or an exception left the call, never both nor neither; 'fail'
\* on an existing table ends with an exception and the table as it was; a
\* successful 'replace' leaves the table with the columns and rows of the
\* frame; a successful 'append' leaves the previous rows followed by the
\* rows of the frame; on an absent table every policy creates the table
\* with the rows of the frame and succeeds unless the database cannot be
\* written; after an exception under 'fail' or 'append' the table is as it
\* was.
C19_PolitiqueDExport ==
    bdd.pc = "fin" =>
        /\ BddSucces \/ BddEchec
        /\ (bdd.avant.existe /\ bdd.si_existe = "fail") =>
              (BddEchec /\ bdd.table = bdd.avant)
        /\ (bdd.avant.existe /\ bdd.si_existe = "replace" /\ BddSucces) =>
              bdd.table = [existe |-> TRUE, cols |-> bdd.df.cols, lignes |-> bdd.df.lignes]
        /\ (bdd.avant.existe /\ bdd.si_existe = "append" /\ BddSucces) =>
              /\ bdd.table.cols = bdd.avant.cols
              /\ SubSeq(bdd.table.lignes, 1, Len(bdd.avant.lignes)) = bdd.avant.lignes
              /\ TientLesLignes(
                    [bdd.table EXCEPT !.lignes =
                        SubSeq(@, Len(bdd.avant.lignes) + 1, Len(@))],
                    bdd.df.cols, bdd.df.lignes)
        /\ ~bdd.avant.existe =>
              /\ BddSucces <=> ~bdd.io
              /\ BddSucces =>
                    bdd.table = [existe |-> TRUE, cols |-> bdd.df.cols,
                                 lignes |-> bdd.df.lignes]
        /\ (BddEchec /\ bdd.si_existe # "replace") => bdd.table = bdd.avant

\* C19 witness: 'fail' met an existing table that holds a row, with a frame
\* that holds other rows, and the database was writable.
C19_Temoin ==
    /\ bdd.pc = "fin"
    /\ bdd.si_existe = "fail"
    /\ bdd.avant.existe
    /\ Len(bdd.avant.lignes) > 0
    /\ Len(bdd.df.lignes) > 0
    /\ bdd.df.lignes # bdd.avant.lignes
    /\ ~bdd.io
    /\ BddEchec

====
